---------------------------- MODULE Spec2Model ----------------------------
(***************************************************************************)
(* Velocity-Verlet integrator for Drude-polarizable systems                *)
(* (openmmapi/src/VVIntegrator.cpp, platforms/cuda/src/CudaVVKernels.cpp). *)
(*                                                                         *)
(* Six specifications share the definitions below:                         *)
(*   Spec      - the controller: configuration calls, bind, step, energy   *)
(*               query, over a small family of systems;                    *)
(*   SpecBind  - classification and degree-of-freedom accounting at bind,  *)
(*               over a broad family of systems (no stepping);             *)
(*   SpecChain - VVIntegrator::propagateNHChain on the chain of one        *)
(*               temperature group, as the Nose-Hoover kernel sets it up   *)
(*               and calls it;                                             *)
(*   SpecImage - image pairs registered before and after a bind, and       *)
(*               steps, over a system of a parent and its images;          *)
(*   SpecRebind - binds that fail late, rebinds of the owning context and  *)
(*               steps between them;                                       *)
(*   SpecTemp  - changes of the target temperatures between the calls of   *)
(*               propagateNHChain for one temperature group.               *)
(*                                                                         *)
(* Particle coordinates, velocities and forces live in device buffers of   *)
(* the execution backend and are not state of this model, but for the set  *)
(* `mirrored` of image pairs whose image sits at the mirror of its parent  *)
(* and the set of modifiers whose force the extra-force array holds; every *)
(* call the integrator makes on a collaborator is recorded in `trace`.     *)
(***************************************************************************)
EXTENDS Integers, Sequences, FiniteSets, TLC

(***************************************************************************)
(* Bounds of the model.                                                    *)
(***************************************************************************)
NumParticles == 2
MaxMass == 1
MaxConstraints == 1
MaxImagePairs == 1
MaxLD == 1
MaxElectrolyte == 1
MaxInit == 2
MaxBinds == 1
MaxSteps == 2
MaxStepCount == 2
MaxChains == 2
MaxLoops == 2
MaxCalls == 2
MaxChainWork == 3
MaxRegistrations == 3
NumSites == 3
MaxTemperature == 2

NULL == "NULL"
NoKernel == [created |-> FALSE]
Contexts == {"A", "B"}
\* the particle indices of the systems that are enumerated
ParticleIds == 0 .. (NumParticles - 1)
\* none, one, several
ForceCounts == {0, 1, 2}
StepSizes == {1, 2}

\* enum{TG_ATOM, TG_COM, TG_DRUDE, NUM_TG}
TG_ATOM == 0
TG_COM == 1
TG_DRUDE == 2
NUM_TG == 3

VARIABLES
    \* the system and molecules each context was built over
    system,
    \* VVIntegrator fields
    context, owner, forcesAreValid,
    cosAcceleration, useCOMTempGroup, stepSize, numNHChains, loopsPerStep,
    particlesLD, particlesImage, imagePairs, particlesElectrolyte,
    particleResId, residueMasses, residueInvMasses, particlesNH, residuesNH,
    vvKernel, nhKernel, ldKernel, imgKernel, efKernel, ppKernel,
    \* the bound context's clock
    simTime, stepCount, mirrored,
    \* the last call on the integrator, its argument, outcome and collaborator calls
    lastOp, lastArg, lastReturn, lastResult, trace, numInit,
    \* the extra force each velocity update of the last step call read
    forceUsed,
    \* the target temperatures, in units of 1/BOLTZ
    temperature, drudeTemperature,
    \* SpecChain: one temperature group's chain and the last propagateNHChain call
    chain, numCalls

cfgVars == <<cosAcceleration, useCOMTempGroup, stepSize, numNHChains, loopsPerStep,
             particlesLD, particlesImage, imagePairs, particlesElectrolyte>>
tableVars == <<particleResId, residueMasses, residueInvMasses, particlesNH, residuesNH>>
kernelVars == <<vvKernel, nhKernel, ldKernel, imgKernel, efKernel, ppKernel>>
bindVars == <<context, owner>>
simVars == <<forcesAreValid, simTime, stepCount, mirrored>>
obsVars == <<lastOp, lastArg, lastReturn, lastResult, trace, numInit, forceUsed>>
chainVars == <<temperature, drudeTemperature, chain, numCalls>>
vars == <<system, cfgVars, tableVars, kernelVars, bindVars, simVars, obsVars, chainVars>>

\* 0 .. system.getNumParticles() - 1; the systems of the two contexts have the
\* same particles
Particles == DOMAIN system["A"].mass

(***************************************************************************)
(* Helpers on vectors. A std::vector is a sequence; index i of the code is *)
(* position i + 1.                                                         *)
(***************************************************************************)
At(v, i) == v[i + 1]
Contains(v, x) == \E k \in 1 .. Len(v) : v[k] = x
Range(v) == {v[k] : k \in 1 .. Len(v)}
Max2(a, b) == IF a < b THEN b ELSE a

RECURSIVE SortedSeq(_)
SortedSeq(S) ==
    IF S = {} THEN <<>>
    ELSE LET m == CHOOSE x \in S : \A y \in S : x <= y
         IN <<m>> \o SortedSeq(S \ {m})

RECURSIVE SumOver(_, _)
SumOver(S, f) ==
    IF S = {} THEN 0
    ELSE LET x == CHOOSE y \in S : TRUE
         IN f[x] + SumOver(S \ {x}, f)

RECURSIVE Gcd(_, _)
Gcd(a, b) == IF b = 0 THEN a ELSE Gcd(b, a % b)

RECURSIVE LcmUpTo(_)
LcmUpTo(n) == IF n <= 1 THEN 1 ELSE LET l == LcmUpTo(n - 1) IN (l * n) \div Gcd(l, n)

\* Degrees of freedom are counted in units of 1/DofScale, which makes every
\* product 3 * mass * (1 / residueMass) an integer.
DofScale == LcmUpTo(NumParticles * MaxMass)


(***************************************************************************)
(* The systems a context is built over: particle masses, the molecules     *)
(* ContextImpl::getMolecules reports, the DrudeForce objects and the pairs *)
(* of the first one, the constraints and the CMMotionRemover forces.       *)
(***************************************************************************)
OrderedPairs == {pr \in ParticleIds \X ParticleIds : pr[1] # pr[2]}

ResidueMaps ==
    {f \in [ParticleIds -> ParticleIds] :
        /\ f[0] = 0
        /\ \A p \in ParticleIds \ {0} : \E q \in 0 .. (p - 1) : f[p] <= f[q] + 1}

MoleculesOf(f) ==
    [i \in 1 .. Cardinality({f[p] : p \in ParticleIds}) |->
        SortedSeq({p \in ParticleIds : f[p] = i - 1})]

SeqsUpTo(S, n) == UNION {[1 .. k -> S] : k \in 0 .. n}

DrudeChoices ==
    {[numDrudeForces |-> 0, drudePairs |-> <<>>],
     [numDrudeForces |-> 1, drudePairs |-> <<>>],
     [numDrudeForces |-> 2, drudePairs |-> <<>>]}
    \cup {[numDrudeForces |-> 1, drudePairs |-> <<pr>>] : pr \in OrderedPairs}

Systems ==
    {[mass |-> m, molecules |-> MoleculesOf(f), numDrudeForces |-> d.numDrudeForces,
      drudePairs |-> d.drudePairs, constraints |-> c, numCMM |-> k] :
        m \in [ParticleIds -> 0 .. MaxMass], f \in ResidueMaps, d \in DrudeChoices,
        c \in SeqsUpTo(OrderedPairs, MaxConstraints), k \in ForceCounts}

\* The system of Spec: every particle its own molecule, unit masses, one
\* DrudeForce without pairs, no constraint, no CMMotionRemover.
PlainSystems ==
    {s \in Systems : /\ \A p \in ParticleIds : s.mass[p] = 1
                     /\ Len(s.molecules) = NumParticles
                     /\ s.numDrudeForces = 1
                     /\ s.drudePairs = <<>>
                     /\ s.constraints = <<>>
                     /\ s.numCMM = 0}

(***************************************************************************)
(* Accessors of VVIntegrator.                                              *)
(***************************************************************************)
isParticleLD(i) == Contains(particlesLD, i)
isParticleImage(i) == Contains(particlesImage, i)
IsIn(v, i) == Contains(v, i)
getParticleResId(resId, particle) == At(resId, particle)
getResInvMass(invMasses, resid) == At(invMasses, resid)

(***************************************************************************)
(* VVIntegrator::initialize, classification (lines 108-136).               *)
(***************************************************************************)
ParticleResIdOf(molecules) ==
    [k \in 1 .. Cardinality(Particles) |->
        LET idx == {i \in 1 .. Len(molecules) : Contains(molecules[i], k - 1)}
        IN IF idx = {} THEN -1
           ELSE (CHOOSE i \in idx : \A j \in idx : j <= i) - 1]

ResidueMassesOf(sys, resId) ==
    [i \in 1 .. Len(sys.molecules) |->
        SumOver({p \in Particles : At(resId, p) = i - 1}, sys.mass)]

\* 1.0 / m as the fraction num/den; den = 0 is +infinity
InvMass(m) == [num |-> 1, den |-> m]

ResidueInvMassesOf(old, masses) ==
    old \o [i \in 1 .. Len(masses) |-> InvMass(masses[i])]

PushResidue(rNH, r) == IF Contains(rNH, r) THEN rNH ELSE Append(rNH, r)

\* the test of line 124 without its image half
IsClassifiedNHIgnoringImages(i) == ~isParticleLD(i)

\* line 124
IsClassifiedNH(i) == ~isParticleLD(i) /\ ~isParticleImage(i)

RECURSIVE ClassifyNH(_, _, _)
ClassifyNH(i, acc, resId) ==
    IF i >= Cardinality(Particles) THEN acc
    ELSE IF IsClassifiedNH(i)
         THEN ClassifyNH(i + 1,
                         [p |-> Append(acc.p, i),
                          r |-> PushResidue(acc.r, getParticleResId(resId, i))],
                         resId)
         ELSE ClassifyNH(i + 1, acc, resId)

\* initialize without the residue test of lines 131-136
ResidueConflictAbsent(rNH, resId) == FALSE

\* lines 131-136
ResidueConflict(rNH, resId) ==
    \E i \in Particles : isParticleLD(i) /\ Contains(rNH, getParticleResId(resId, i))

ThermostatConflict == particlesLD # <<>> /\ cosAcceleration # 0

(***************************************************************************)
(* CudaModifyDrudeNoseKernel::initialize, degree-of-freedom accounting     *)
(* (lines 314-378). A running count is v/DofScale, or -infinity (ninf)     *)
(* once 3 * mass * resInvMass was subtracted with resInvMass = +infinity.  *)
(***************************************************************************)
ZeroDof == [ninf |-> FALSE, v |-> 0]
DofPlus(d, k) == [d EXCEPT !.v = @ + k * DofScale]

\* tempGroupDof[TG_ATOM] -= 3 * mass * resInvMass
DofMinusCOMShare(d, mass, inv) ==
    IF inv.den = 0 THEN [d EXCEPT !.ninf = TRUE]
    ELSE [d EXCEPT !.v = @ - ((3 * mass * inv.num * DofScale) \div inv.den)]

\* line 323 without the test of isParticleNH
AtomDofOfAnyParticle(d, isNH, mass, inv, useCOM) ==
    IF mass # 0
    THEN IF useCOM THEN DofMinusCOMShare(DofPlus(d, 3), mass, inv) ELSE DofPlus(d, 3)
    ELSE d

\* lines 323-328
AtomDofOfParticle(d, isNH, mass, inv, useCOM) ==
    IF isNH /\ mass # 0
    THEN IF useCOM THEN DofMinusCOMShare(DofPlus(d, 3), mass, inv) ELSE DofPlus(d, 3)
    ELSE d

RECURSIVE AtomDofLoop(_, _, _, _, _, _, _)
AtomDofLoop(i, d, sys, pNH, resId, invs, useCOM) ==
    IF i >= Cardinality(Particles) THEN d
    ELSE AtomDofLoop(i + 1,
                     AtomDofOfParticle(d, IsIn(pNH, i), sys.mass[i],
                                       getResInvMass(invs, getParticleResId(resId, i)),
                                       useCOM),
                     sys, pNH, resId, invs, useCOM)

\* lines 331-344: the Drude pairs whose first particle is in the NH list
PairsNH(sys, pNH) == SelectSeq(sys.drudePairs, LAMBDA pr : IsIn(pNH, pr[1]))

\* lines 348-355: a constraint is subtracted when its first particle is in the NH list
ConstraintCounts(pNH, c) == IsIn(pNH, c[1])
ConstraintsNH(sys, pNH) == SelectSeq(sys.constraints, LAMBDA c : ConstraintCounts(pNH, c))

\* the loop of lines 364-372 without its break
CMMotionDofOfEveryRemover(numCMM) == 3 * numCMM

\* lines 364-372: the loop stops at the first CMMotionRemover
CMMotionDof(numCMM) == IF numCMM > 0 THEN 3 ELSE 0

RawDof(sys, pNH, rNH, resId, invs, useCOM) ==
    LET atom0 == AtomDofLoop(0, ZeroDof, sys, pNH, resId, invs, useCOM)
        nPairs == Len(PairsNH(sys, pNH))
        atom1 == DofPlus(DofPlus(atom0, -3 * nPairs), -Len(ConstraintsNH(sys, pNH)))
        com0 == IF useCOM THEN DofPlus(ZeroDof, 3 * Len(rNH)) ELSE ZeroDof
        cmm == CMMotionDof(sys.numCMM)
    IN <<IF useCOM THEN atom1 ELSE DofPlus(atom1, -cmm),
         IF useCOM THEN DofPlus(com0, -cmm) ELSE com0,
         DofPlus(ZeroDof, 3 * nPairs)>>

\* the accounting without the clamp of lines 377-378
ClampDofAbsent(d) == d.v

\* lines 377-378: max(tempGroupDof[i], 0)
ClampDof(d) == IF d.ninf \/ d.v < 0 THEN 0 ELSE d.v

\* lines 314-345: the NH particles that are in no NH pair
NormalParticlesNH(sys, pNH) ==
    SortedSeq({i \in Particles : IsIn(pNH, i)}
              \ UNION {{pr[1], pr[2]} : pr \in Range(PairsNH(sys, pNH))})

NoseKernel(sys, pNH, rNH, resId, invs, useCOM) ==
    LET raw == RawDof(sys, pNH, rNH, resId, invs, useCOM)
    IN [created |-> TRUE,
        tempGroupDof |-> [g \in 1 .. NUM_TG |-> ClampDof(raw[g])],
        normalParticlesNH |-> NormalParticlesNH(sys, pNH),
        pairParticlesNH |-> PairsNH(sys, pNH)]

(***************************************************************************)
(* CudaModifyDrudeLangevinKernel::initialize (lines 569-587).              *)
(***************************************************************************)
PairsLD(sys) == SelectSeq(sys.drudePairs, LAMBDA pr : isParticleLD(pr[1]))

LangevinKernel(sys) ==
    [created |-> TRUE,
     normalParticlesLD |->
        SortedSeq({i \in Particles : isParticleLD(i)}
                  \ UNION {{pr[1], pr[2]} : pr \in Range(PairsLD(sys))}),
     pairParticlesLD |-> PairsLD(sys)]

PlainKernel == [created |-> TRUE]

\* CudaIntegrateVVStepKernel::initialize (lines 77-87): forceExtra is created
\* all-zero. The array is represented by the set of the modifiers whose force
\* it holds; the empty set is the all-zero array.
StepKernel == [created |-> TRUE, forceExtra |-> {}]

\* CudaModifyImageChargeKernel::initialize (lines 669-675): the pairs registered
\* at this moment are copied to the device
ImageKernel == [created |-> TRUE, imagePairs |-> imagePairs]

(***************************************************************************)
(* VVIntegrator::initialize (lines 89-166).                                *)
(***************************************************************************)
\* initialize without the throw of line 100
EarlyFailureWithoutDrudeCount(ctx, sys) ==
    IF owner # NULL /\ ctx # owner THEN "BindingConflict"
    ELSE IF sys.numDrudeForces = 0 /\ useCOMTempGroup THEN "ConfigurationConflict"
    ELSE "OK"

\* initialize without the owner test of lines 90-91
EarlyFailureWithoutOwnerCheck(ctx, sys) ==
    IF sys.numDrudeForces > 1 THEN "MultipleForceDefinition"
    ELSE IF sys.numDrudeForces = 0 /\ useCOMTempGroup THEN "ConfigurationConflict"
    ELSE "OK"

\* lines 90-104: the checks made before anything is written
EarlyFailure(ctx, sys) ==
    IF owner # NULL /\ ctx # owner THEN "BindingConflict"
    ELSE IF sys.numDrudeForces > 1 THEN "MultipleForceDefinition"
    ELSE IF sys.numDrudeForces = 0 /\ useCOMTempGroup THEN "ConfigurationConflict"
    ELSE "OK"

\* lines 131-140: the checks made after the tables were written
LateFailure(rNH, resId) ==
    IF ResidueConflict(rNH, resId) THEN "ConfigurationConflict"
    ELSE IF ThermostatConflict THEN "ConfigurationConflict"
    ELSE "OK"

\* lines 142-165: a kernel is created when its particle set is not empty
KernelsCreated(kern, sys, pNH, rNH, resId, invs) ==
    [vv |-> StepKernel,
     nh |-> IF pNH # <<>>
            THEN NoseKernel(sys, pNH, rNH, resId, invs, useCOMTempGroup) ELSE kern.nh,
     ld |-> IF particlesLD # <<>> THEN LangevinKernel(sys) ELSE kern.ld,
     img |-> IF particlesImage # <<>> THEN ImageKernel ELSE kern.img,
     ef |-> IF particlesElectrolyte # <<>> THEN PlainKernel ELSE kern.ef,
     pp |-> IF cosAcceleration # 0 THEN PlainKernel ELSE kern.pp]

CurrentKernels ==
    [vv |-> vvKernel, nh |-> nhKernel, ld |-> ldKernel,
     img |-> imgKernel, ef |-> efKernel, pp |-> ppKernel]

\* VVIntegrator::cleanup (lines 168-175)
CleanedKernels ==
    [vv |-> NoKernel, nh |-> NoKernel, ld |-> NoKernel,
     img |-> NoKernel, ef |-> NoKernel, pp |-> NoKernel]

InitializeOutcome(ctx, kern) ==
    LET sys == system[ctx]
        early == EarlyFailure(ctx, sys)
        resId == ParticleResIdOf(sys.molecules)
        masses == ResidueMassesOf(sys, resId)
        invs == ResidueInvMassesOf(residueInvMasses, masses)
        cls == ClassifyNH(0, [p |-> particlesNH, r |-> residuesNH], resId)
        late == LateFailure(cls.r, resId)
        before == [result |-> early, wrote |-> 0, context |-> context, owner |-> owner,
                   particleResId |-> particleResId, residueMasses |-> residueMasses,
                   residueInvMasses |-> residueInvMasses,
                   particlesNH |-> particlesNH, residuesNH |-> residuesNH,
                   kernels |-> kern]
        written == [before EXCEPT !.result = late, !.wrote = 1,
                                  !.particleResId = resId, !.residueMasses = masses,
                                  !.residueInvMasses = invs,
                                  !.particlesNH = cls.p, !.residuesNH = cls.r]
    IN IF early # "OK" THEN before
       ELSE IF late # "OK" THEN written
       ELSE [written EXCEPT !.context = ctx, !.owner = ctx,
                            !.kernels = KernelsCreated(kern, sys, cls.p, cls.r, resId, invs)]

ApplyInitialize(ctx, o) ==
    /\ context' = o.context
    /\ owner' = o.owner
    /\ particleResId' = o.particleResId
    /\ residueMasses' = o.residueMasses
    /\ residueInvMasses' = o.residueInvMasses
    /\ particlesNH' = o.particlesNH
    /\ residuesNH' = o.residuesNH
    /\ vvKernel' = o.kernels.vv
    /\ nhKernel' = o.kernels.nh
    /\ ldKernel' = o.kernels.ld
    /\ imgKernel' = o.kernels.img
    /\ efKernel' = o.kernels.ef
    /\ ppKernel' = o.kernels.pp
    /\ lastOp' = "initialize"
    /\ lastArg' = 0
    /\ lastReturn' = 0
    /\ lastResult' = o.result
    /\ trace' = <<>>
    /\ forceUsed' = <<>>
    /\ numInit' = numInit + o.wrote
    /\ UNCHANGED <<system, cfgVars, simVars, chainVars>>

\* the calls that append to the tables are counted in numInit
TableWrites(ctx) == IF EarlyFailure(ctx, system[ctx]) = "OK" THEN 1 ELSE 0

\* a Context is constructed over this integrator
Initialize(ctx) ==
    /\ numInit + TableWrites(ctx) <= MaxInit
    /\ owner # ctx
    /\ ApplyInitialize(ctx, InitializeOutcome(ctx, CurrentKernels))

\* Context::reinitialize of the owning context: cleanup(), then initialize()
Reinitialize(ctx) ==
    /\ numInit + TableWrites(ctx) <= MaxInit
    /\ owner = ctx
    /\ ApplyInitialize(ctx, InitializeOutcome(ctx, CleanedKernels))

(***************************************************************************)
(* Configuration calls.                                                    *)
(***************************************************************************)
Observe(op, arg, ret, result) ==
    /\ lastOp' = op
    /\ lastArg' = arg
    /\ lastReturn' = ret
    /\ lastResult' = result
    /\ trace' = <<>>
    /\ forceUsed' = <<>>
    /\ UNCHANGED numInit

\* addImagePair returning the index of the new pair instead of the new size
AddImagePairReturningIndex(image, parent) ==
    /\ particlesImage' = Append(particlesImage, image)
    /\ imagePairs' = Append(imagePairs, <<image, parent>>)
    /\ Observe("addImagePair", 0, Len(imagePairs), "OK")
    /\ UNCHANGED <<system, cosAcceleration, useCOMTempGroup, stepSize, numNHChains,
                   loopsPerStep, particlesLD, particlesElectrolyte,
                   tableVars, kernelVars, bindVars, simVars, chainVars>>

\* VVIntegrator::addImagePair (lines 73-77)
AddImagePair(image, parent) ==
    /\ particlesImage' = Append(particlesImage, image)
    /\ imagePairs' = Append(imagePairs, <<image, parent>>)
    /\ Observe("addImagePair", 0, Len(imagePairs'), "OK")
    /\ UNCHANGED <<system, cosAcceleration, useCOMTempGroup, stepSize, numNHChains,
                   loopsPerStep, particlesLD, particlesElectrolyte,
                   tableVars, kernelVars, bindVars, simVars, chainVars>>

AddParticleLangevin(p) ==
    /\ Len(particlesLD) < MaxLD
    /\ particlesLD' = Append(particlesLD, p)
    /\ Observe("addParticleLangevin", 0, Len(particlesLD'), "OK")
    /\ UNCHANGED <<system, cosAcceleration, useCOMTempGroup, stepSize, numNHChains,
                   loopsPerStep, particlesImage, imagePairs, particlesElectrolyte,
                   tableVars, kernelVars, bindVars, simVars, chainVars>>

AddParticleElectrolyte(p) ==
    /\ Len(particlesElectrolyte) < MaxElectrolyte
    /\ particlesElectrolyte' = Append(particlesElectrolyte, p)
    /\ Observe("addParticleElectrolyte", 0, Len(particlesElectrolyte'), "OK")
    /\ UNCHANGED <<system, cosAcceleration, useCOMTempGroup, stepSize, numNHChains,
                   loopsPerStep, particlesImage, imagePairs, particlesLD,
                   tableVars, kernelVars, bindVars, simVars, chainVars>>

SetCosAcceleration(a) ==
    /\ cosAcceleration # a
    /\ cosAcceleration' = a
    /\ Observe("setCosAcceleration", 0, 0, "OK")
    /\ UNCHANGED <<system, useCOMTempGroup, stepSize, numNHChains,
                   loopsPerStep, particlesImage, imagePairs, particlesLD,
                   particlesElectrolyte,
                   tableVars, kernelVars, bindVars, simVars, chainVars>>

(***************************************************************************)
(* VVIntegrator::step (lines 197-270). A run of the loop body is a record  *)
(*   valid  - forcesAreValid                                               *)
(*   time, count - the context's clock                                     *)
(*   calls  - the collaborator calls made so far                           *)
(*   mirrored - the indices of the registered image pairs whose image is   *)
(*            known to sit at the mirror of its parent                     *)
(*   forceExtra - the extra-force array of the step kernel                 *)
(*   used   - the extra force each velocity update read, in order          *)
(*   result - "OK", or "InvalidKernel" once getAs was applied to a Kernel  *)
(*            that holds no implementation: a null reference is formed,    *)
(*            the process faults or the call is left by an exception; in   *)
(*            both cases the call is not made and step does not go on.     *)
(*            What follows, if anything, starts from the state reached.    *)
(***************************************************************************)
Call(r, name) ==
    IF r.result # "OK" THEN r ELSE [r EXCEPT !.calls = Append(@, name)]

\* a velocity update of the step kernel reads forceExtra (lines 153-160, 232-239)
ReadForce(before, after, half) ==
    IF before.result = "OK" /\ after.result = "OK"
    THEN [after EXCEPT !.used = Append(@, [half |-> half, force |-> after.forceExtra])]
    ELSE after

\* resetExtraForce (lines 199-208) zeroes the array
ZeroForce(before, after) ==
    IF before.result = "OK" /\ after.result = "OK"
    THEN [after EXCEPT !.forceExtra = {}] ELSE after

\* a modifier adds its force to the array of the step kernel
AddForce(before, after, modifier) ==
    IF before.result = "OK" /\ after.result = "OK"
    THEN [after EXCEPT !.forceExtra = @ \cup {modifier}] ELSE after

KernelCall(r, kernel, name) ==
    IF r.result # "OK" THEN r
    ELSE IF kernel.created THEN [r EXCEPT !.calls = Append(@, name)]
    ELSE [r EXCEPT !.result = "InvalidKernel"]

\* lines 216-217: context->updateContextState() reports a change of state
QueryContextState(r, changed) ==
    LET q == Call(r, "updateContextState")
    IN IF changed THEN [q EXCEPT !.valid = FALSE, !.mirrored = {}] ELSE q

\* lines 219-222
RevalidateForces(r) ==
    IF r.valid THEN r ELSE [Call(r, "calcForcesAndEnergy") EXCEPT !.valid = TRUE]

\* lines 225-235 and 258-268
ThermostatStage(r) ==
    IF particlesNH = <<>> THEN r
    ELSE LET a == IF cosAcceleration # 0
                  THEN KernelCall(KernelCall(r, ppKernel, "calcVelocityBias"),
                                  ppKernel, "removeVelocityBias")
                  ELSE r
             b == KernelCall(KernelCall(a, nhKernel, "calcGroupKineticEnergies"),
                             nhKernel, "scaleVelocity")
         IN IF cosAcceleration # 0
            THEN KernelCall(b, ppKernel, "restoreVelocityBias") ELSE b

\* line 236 and CudaIntegrateVVStepKernel::firstIntegrate (lines 193-196); every
\* particle moves by its own velocity, so no pair is known to be mirrored
FirstIntegrate(r, reordered) ==
    LET f == ReadForce(r, KernelCall(r, vvKernel, "firstIntegrate"), 1)
        g == IF f.result = "OK" THEN [f EXCEPT !.mirrored = {}] ELSE f
    IN IF g.result = "OK" /\ reordered THEN [g EXCEPT !.valid = FALSE] ELSE g

\* CudaModifyImageChargeKernel::updateImagePositions (lines 688-718): one thread
\* for each pair registered now (line 717) over the pairs copied at initialize.
\* A pair is mirrored by the thread of a copied pair equal to it, unless the
\* thread of another copied pair moves its image or its parent. A thread beyond
\* the copied pairs reads past the end of the device array; `stray` tells
\* whether what it finds there happens to be its pair.
MirroredPairs(kernel, stray) ==
    LET copied == Range(kernel.imagePairs)
        moved(pr) == \E w \in copied : w # pr /\ w[1] \in {pr[1], pr[2]}
    IN {k \in 1 .. Len(imagePairs) :
          IF imagePairs[k] \in copied THEN ~moved(imagePairs[k])
          ELSE k > Len(kernel.imagePairs) /\ stray}

\* lines 239-241
ImageStage(r, stray) ==
    IF particlesImage # <<>>
    THEN LET k == KernelCall(r, imgKernel, "updateImagePositions")
         IN IF k.result = "OK"
            THEN [k EXCEPT !.mirrored = MirroredPairs(imgKernel, stray)] ELSE k
    ELSE r

\* lines 244-245
EvaluateForces(r) ==
    IF r.result # "OK" THEN r
    ELSE [Call(r, "calcForcesAndEnergy") EXCEPT !.valid = TRUE]

\* lines 247-254
ExtraForceStage(r) ==
    LET a == IF particlesLD # <<>> \/ particlesElectrolyte # <<>> \/ cosAcceleration # 0
             THEN ZeroForce(r, KernelCall(r, vvKernel, "resetExtraForce")) ELSE r
        b == IF particlesLD # <<>>
             THEN AddForce(a, KernelCall(a, ldKernel, "applyLangevinForce"), "Langevin")
             ELSE a
        c == IF particlesElectrolyte # <<>>
             THEN AddForce(b, KernelCall(b, efKernel, "applyElectricForce"), "Electric")
             ELSE b
    IN IF cosAcceleration # 0
       THEN AddForce(c, KernelCall(c, ppKernel, "applyCosForce"), "Cos") ELSE c

\* CudaIntegrateVVStepKernel::secondIntegrate (lines 241-246)
AdvanceClock(r) == [r EXCEPT !.time = @ + stepSize, !.count = @ + 1]

\* line 257
SecondIntegrate(r) ==
    LET f == ReadForce(r, KernelCall(r, vvKernel, "secondIntegrate"), 2)
    IN IF f.result = "OK" THEN AdvanceClock(f) ELSE f

\* one run of the loop body, given what the collaborators report
StepIteration(r, resp, stray) ==
    ThermostatStage(
      SecondIntegrate(
        ExtraForceStage(
          EvaluateForces(
            ImageStage(
              FirstIntegrate(
                ThermostatStage(
                  RevalidateForces(
                    QueryContextState(r, resp.changed))),
                resp.reordered),
              stray)))))

RECURSIVE StepLoop(_, _, _, _, _)
StepLoop(r, i, steps, resps, stray) ==
    IF i >= steps \/ r.result # "OK" THEN r
    ELSE StepLoop(StepIteration(r, resps[i + 1], stray), i + 1, steps, resps, stray)

Responses == [changed : BOOLEAN, reordered : BOOLEAN]

\* step without the test of line 198
StepGuardAbsent == "OK"

\* line 198
StepGuard == IF context = NULL THEN "UnboundUsage" ELSE "OK"

\* what a read past the end of the device array can find; the array and the
\* memory behind it do not change during a call of step
StrayReads ==
    IF imgKernel.created /\ Len(imagePairs) > Len(imgKernel.imagePairs)
    THEN BOOLEAN ELSE {FALSE}

StepOutcome(steps, resps, stray) ==
    LET r0 == [valid |-> forcesAreValid, time |-> simTime, count |-> stepCount,
               mirrored |-> mirrored, calls |-> <<>>,
               forceExtra |-> IF vvKernel.created THEN vvKernel.forceExtra ELSE {},
               used |-> <<>>, result |-> StepGuard]
    IN StepLoop(r0, 0, steps, resps, stray)

Step(steps) ==
    /\ stepCount + steps <= MaxStepCount
    /\ \E resps \in [1 .. Max2(steps, 0) -> Responses], stray \in StrayReads :
          LET r == StepOutcome(steps, resps, stray)
          IN /\ forcesAreValid' = r.valid
             /\ mirrored' = r.mirrored
             /\ simTime' = r.time
             /\ stepCount' = r.count
             /\ lastOp' = "step"
             /\ lastArg' = steps
             /\ lastReturn' = 0
             /\ lastResult' = r.result
             /\ trace' = r.calls
             /\ forceUsed' = r.used
             /\ vvKernel' = IF vvKernel.created
                            THEN [vvKernel EXCEPT !.forceExtra = r.forceExtra]
                            ELSE vvKernel
    /\ UNCHANGED <<system, cfgVars, tableVars, nhKernel, ldKernel, imgKernel, efKernel,
                   ppKernel, bindVars, numInit, chainVars>>

\* computeKineticEnergy without the assignment of line 193
KineticEnergyQueryKeepsFlag == forcesAreValid

\* VVIntegrator::computeKineticEnergy (lines 188-195): the flag after line 193
KineticEnergyQueryFlag == FALSE

ComputeKineticEnergy ==
    LET r == KernelCall([valid |-> KineticEnergyQueryFlag, time |-> simTime,
                         count |-> stepCount, mirrored |-> mirrored,
                         calls |-> <<>>, result |-> "OK"],
                        vvKernel, "computeKineticEnergy")
    IN /\ forcesAreValid' = r.valid
       /\ lastOp' = "computeKineticEnergy"
       /\ lastArg' = 0
       /\ lastReturn' = 0
       /\ lastResult' = r.result
       /\ trace' = r.calls
       /\ forceUsed' = <<>>
       /\ UNCHANGED <<system, cfgVars, tableVars, kernelVars, bindVars,
                      simTime, stepCount, mirrored, numInit, chainVars>>

(***************************************************************************)
(* Nose-Hoover chain arithmetic. A double is represented by its class      *)
(*   "NaN", "NInf", "Neg", "Zero", "Pos", "PInf"                           *)
(* and a scale factor or exponential (never negative) by                   *)
(*   "NaN", "F0" (= 0), "LT1", "One", "GT1", "FInf".                       *)
(* Finite arithmetic is exact; division by zero and operations on          *)
(* infinities and NaN follow IEEE 754. An operation whose class is not     *)
(* fixed by the classes of its operands yields the set of possible ones.   *)
(* The time steps dt2, dt4, dt8 are positive and finite.                   *)
(***************************************************************************)
Doubles == {"NaN", "NInf", "Neg", "Zero", "Pos", "PInf"}
Factors == {"NaN", "F0", "LT1", "One", "GT1", "FInf"}

Negate(a) ==
    CASE a = "NInf" -> "PInf" [] a = "Neg" -> "Pos" [] a = "Pos" -> "Neg"
      [] a = "PInf" -> "NInf" [] OTHER -> a

\* a + b
AddD(a, b) ==
    IF a = "NaN" \/ b = "NaN" THEN {"NaN"}
    ELSE IF a \in {"NInf", "PInf"}
         THEN IF b = Negate(a) THEN {"NaN"} ELSE {a}
    ELSE IF b \in {"NInf", "PInf"} THEN {b}
    ELSE IF a = "Zero" THEN {b}
    ELSE IF b = "Zero" \/ a = b THEN {a}
    ELSE {"Neg", "Zero", "Pos"}

\* a * a
Square(a) ==
    CASE a = "NaN" -> "NaN" [] a = "Zero" -> "Zero"
      [] a \in {"Neg", "Pos"} -> "Pos" [] OTHER -> "PInf"

\* m * a for a mass m ("Zero" or "Pos")
TimesMass(m, a) ==
    IF m = "Pos" THEN a
    ELSE IF a \in {"NaN", "NInf", "PInf"} THEN "NaN" ELSE "Zero"

\* a / m for a mass m ("Zero" or "Pos"): x/0 is an infinity, 0/0 is NaN
DivMass(a, m) ==
    IF m = "Pos" THEN a
    ELSE CASE a \in {"NaN", "Zero"} -> "NaN"
           [] a \in {"Pos", "PInf"} -> "PInf"
           [] OTHER -> "NInf"

\* exp(-dt * a)
ExpNeg(a) ==
    CASE a = "NaN" -> "NaN" [] a = "NInf" -> "FInf" [] a = "Neg" -> "GT1"
      [] a = "Zero" -> "One" [] a = "Pos" -> "LT1" [] OTHER -> "F0"

\* a * f for a factor f
TimesFactor(a, f) ==
    IF a = "NaN" \/ f = "NaN" THEN "NaN"
    ELSE IF f = "F0" THEN (IF a \in {"NInf", "PInf"} THEN "NaN" ELSE "Zero")
    ELSE IF f = "FInf"
         THEN CASE a = "Zero" -> "NaN" [] a \in {"Neg", "NInf"} -> "NInf"
                [] OTHER -> "PInf"
    ELSE a

\* f * g for two factors
MulFactor(f, g) ==
    IF f = "NaN" \/ g = "NaN" THEN {"NaN"}
    ELSE IF f = "One" THEN {g}
    ELSE IF g = "One" THEN {f}
    ELSE IF f = "F0" THEN (IF g = "FInf" THEN {"NaN"} ELSE {"F0"})
    ELSE IF g = "F0" THEN (IF f = "FInf" THEN {"NaN"} ELSE {"F0"})
    ELSE IF f = "FInf" \/ g = "FInf" THEN {"FInf"}
    ELSE IF f = g THEN {f}
    ELSE {"LT1", "One", "GT1"}

\* ke2 - ke2_target, where cmp orders the two finite arguments
Excess(cmp) == CASE cmp = "LT" -> "Neg" [] cmp = "EQ" -> "Zero" [] OTHER -> "Pos"

\* ke2 * factor * factor - ke2_target
ScaledExcess(ke2, target, cmp, f) ==
    LET scaled == TimesFactor(TimesFactor(ke2, f), f)
    IN IF scaled \in {"NaN", "PInf"} THEN {scaled}
       ELSE IF f = "One" THEN {Excess(cmp)}
       ELSE IF scaled = "Zero" THEN {Negate(target)}
       ELSE IF target = "Zero" THEN {"Pos"}
       ELSE IF f = "LT1" /\ cmp \in {"LT", "EQ"} THEN {"Neg"}
       ELSE IF f = "GT1" /\ cmp \in {"GT", "EQ"} THEN {"Pos"}
       ELSE {"Neg", "Zero", "Pos"}

\* the calls' arguments: ke2 >= 0, ke2_target >= 0 and their order
ChainInputs(target) ==
    {i \in [ke2 : {"Zero", "Pos"}, cmp : {"LT", "EQ", "GT"}] :
        /\ (i.ke2 = "Zero" /\ target = "Zero") => i.cmp = "EQ"
        /\ (i.ke2 = "Zero" /\ target = "Pos") => i.cmp = "LT"
        /\ (i.ke2 = "Pos" /\ target = "Zero") => i.cmp = "GT"}

(***************************************************************************)
(* CudaModifyDrudeNoseKernel::initialize, lines 382-401: the chain of one  *)
(* temperature group with the given DOF and kB*T ("Zero" or "Pos"); the    *)
(* thermostat frequency is positive, so tgMass has the class of kB*T.      *)
(***************************************************************************)
TimesDof(dof, a) == IF dof = "Zero" \/ a = "Zero" THEN "Zero" ELSE "Pos"

ChainInit(n, dof, kbT) ==
    [created |-> TRUE,
     eta |-> [ich \in 1 .. n |-> "Zero"],
     etaDot |-> [ich \in 1 .. n + 1 |-> "Zero"],
     \* etaDot is all zero here, so the numerator is -tgKbT
     etaDotDot |-> [ich \in 1 .. n |->
                      IF ich = 1 THEN "Zero" ELSE DivMass(Negate(kbT), kbT)],
     etaMass |-> [ich \in 1 .. n |-> IF ich = 1 THEN TimesDof(dof, kbT) ELSE kbT],
     tempGroupNkbT |-> TimesDof(dof, kbT),
     kbT |-> kbT,
     factor |-> "One",
     dividedByZeroMass |-> FALSE,
     \* the arguments of the last call (none was made yet)
     ke2 |-> "Zero",
     cmp |-> "EQ"]

\* getDrudeTemperature() for the Drude group, getTemperature() for the others
\* (lines 389-391 and 532)
GroupTemperature(g) == IF g = TG_DRUDE THEN drudeTemperature ELSE temperature

\* the class of BOLTZ * T
KbTClass(T) == IF T = 0 THEN "Zero" ELSE "Pos"

\* the chain of temperature group g with `dof` degrees of freedom: what the
\* kernel keeps of the bind (tempGroupDof, and tempGroupNkbT of line 393, in
\* units of BOLTZ), the ke2_target and t_target of the last call and the
\* thermostat time that call covered
GroupChain(n, g, dof) ==
    ChainInit(n, KbTClass(dof), KbTClass(GroupTemperature(g)))
    @@ [group |-> g, dof |-> dof, nkbT |-> dof * GroupTemperature(g),
        ke2Target |-> 0, tTarget |-> 0, elapsed |-> 0]

(***************************************************************************)
(* VVIntegrator::propagateNHChain (lines 272-309) on a chain c. A run is a *)
(* record of eta, etaDot, etaDotDot, expfac, factor; each statement maps   *)
(* the set of possible runs to the set of possible runs.                   *)
(***************************************************************************)
\* lines 286-289, one link of the first loop
InwardLink(st, ich) ==
    LET e == ExpNeg(At(st.etaDot, ich + 1))
        a == TimesFactor(At(st.etaDot, ich), e)
    IN {[st EXCEPT !.expfac = e, !.etaDot[ich + 1] = TimesFactor(s, e)] :
            s \in AddD(a, At(st.etaDotDot, ich))}

RECURSIVE InwardSweep(_, _)
InwardSweep(S, ich) ==
    IF ich < 0 THEN S
    ELSE InwardSweep(UNION {InwardLink(st, ich) : st \in S}, ich - 1)

\* line 291 with the sign of the exponent lost
ScaleFactorInverted(st) ==
    {[st EXCEPT !.factor = f] :
        f \in MulFactor(st.factor, ExpNeg(Negate(At(st.etaDot, 0))))}

\* line 291
ScaleFactor(st) ==
    {[st EXCEPT !.factor = f] : f \in MulFactor(st.factor, ExpNeg(At(st.etaDot, 0)))}

\* lines 293-294
RECURSIVE AdvanceEta(_, _, _)
AdvanceEta(S, ich, n) ==
    IF ich >= n THEN S
    ELSE AdvanceEta(UNION {{[st EXCEPT !.eta[ich + 1] = s] :
                               s \in AddD(At(st.eta, ich), At(st.etaDot, ich))} : st \in S},
                    ich + 1, n)

\* Times are counted in units of 1/TimeScale, which makes dt2 an integer.
TimeScale == 2 * LcmUpTo(MaxLoops)

\* line 277 with the division by 2 left out
Dt2WholeStep == (stepSize * TimeScale) \div loopsPerStep

\* line 277: dt2 = getStepSize() / loopsPerStep / 2
Dt2 == (stepSize * TimeScale) \div (loopsPerStep * 2)

\* lines 293-294 advance every eta by dt2 * eta_dot: the chain moves on by dt2
Elapse(S) == {[st EXCEPT !.elapsed = @ + Dt2] : st \in S}

\* the divisor of line 296
FirstLinkDivisor(c) == At(c.etaMass, 0)

\* lines 296-299
RecomputeFirstLink(st, c, in) ==
    UNION {LET dd == DivMass(x, FirstLinkDivisor(c))
               a == TimesFactor(At(st.etaDot, 0), st.expfac)
           IN {[st EXCEPT !.etaDotDot[1] = dd,
                          !.etaDot[1] = TimesFactor(s, st.expfac),
                          !.dividedByZeroMass = @ \/ FirstLinkDivisor(c) = "Zero"] :
                  s \in AddD(a, dd)} :
           x \in ScaledExcess(in.ke2, c.tempGroupNkbT, in.cmp, st.factor)}

\* lines 301-306, one link of the last loop
OutwardLink(st, c, ich) ==
    LET e == ExpNeg(At(st.etaDot, ich + 1))
        a == TimesFactor(At(st.etaDot, ich), e)
    IN UNION {LET dd == DivMass(x, At(c.etaMass, ich))
              IN {[st EXCEPT !.expfac = e, !.etaDotDot[ich + 1] = dd,
                             !.etaDot[ich + 1] = TimesFactor(s, e)] :
                     s \in AddD(a, dd)} :
              x \in AddD(TimesMass(At(c.etaMass, ich - 1),
                                   Square(At(st.etaDot, ich - 1))),
                         Negate(c.kbT))}

RECURSIVE OutwardSweep(_, _, _, _)
OutwardSweep(S, c, ich, n) ==
    IF ich >= n THEN S
    ELSE OutwardSweep(UNION {OutwardLink(st, c, ich) : st \in S}, c, ich + 1, n)

\* the loop body with line 291 moved behind line 298
SubIterationScalingLast(S, c, in, n) ==
    LET a == InwardSweep(S, n - 1)
        d == Elapse(AdvanceEta(a, 0, n))
        e == UNION {RecomputeFirstLink(st, c, in) : st \in d}
        b == UNION {ScaleFactor(st) : st \in e}
    IN OutwardSweep(b, c, 1, n)

\* lines 284-307, one run of the loop body
SubIteration(S, c, in, n) ==
    LET a == InwardSweep(S, n - 1)
        b == UNION {ScaleFactor(st) : st \in a}
        d == Elapse(AdvanceEta(b, 0, n))
        e == UNION {RecomputeFirstLink(st, c, in) : st \in d}
    IN OutwardSweep(e, c, 1, n)

RECURSIVE ChainLoop(_, _, _, _, _, _)
ChainLoop(S, c, in, n, iloop, loops) ==
    IF iloop >= loops THEN S
    ELSE ChainLoop(SubIteration(S, c, in, n), c, in, n, iloop + 1, loops)

\* lines 281-283
ChainEntry(c, in) ==
    LET st == [eta |-> c.eta, etaDot |-> c.etaDot, etaDotDot |-> c.etaDotDot,
               expfac |-> "One", factor |-> "One", dividedByZeroMass |-> FALSE,
               elapsed |-> 0]
    IN IF At(c.etaMass, 0) = "Pos"
       THEN [st EXCEPT !.etaDotDot[1] = DivMass(Excess(in.cmp), At(c.etaMass, 0))]
       ELSE st

propagateNHChain(c, in, n, loops) ==
    ChainLoop({ChainEntry(c, in)}, c, in, n, 0, loops)

\* line 532: the t_target of a call is the temperature the integrator holds now
TargetTemperature(c) == GroupTemperature(c.group)

\* CudaModifyDrudeNoseKernel::scaleVelocity (lines 531-538) for one group:
\* ke2_target is tempGroupNkbT of the bind, BOLTZ * t_target becomes c.kbT
PropagateNHChain ==
    /\ numCalls < MaxCalls
    /\ \E in \in ChainInputs(chain.tempGroupNkbT) :
         LET T == TargetTemperature(chain)
             c == [chain EXCEPT !.kbT = KbTClass(T)]
         IN chain' \in {[chain EXCEPT !.eta = st.eta, !.etaDot = st.etaDot,
                                      !.etaDotDot = st.etaDotDot, !.factor = st.factor,
                                      !.dividedByZeroMass = st.dividedByZeroMass,
                                      !.ke2 = in.ke2, !.cmp = in.cmp,
                                      !.ke2Target = chain.nkbT, !.tTarget = T,
                                      !.elapsed = st.elapsed] :
                           st \in propagateNHChain(c, in, numNHChains, loopsPerStep)}
    /\ numCalls' = numCalls + 1
    /\ UNCHANGED <<system, cfgVars, tableVars, kernelVars, bindVars, simVars, obsVars,
                   temperature, drudeTemperature>>

\* VVIntegrator::setTemperature
SetTemperature(T) ==
    /\ temperature # T
    /\ temperature' = T
    /\ Observe("setTemperature", 0, 0, "OK")
    /\ UNCHANGED <<system, cfgVars, tableVars, kernelVars, bindVars, simVars,
                   drudeTemperature, chain, numCalls>>

\* VVIntegrator::setDrudeTemperature
SetDrudeTemperature(T) ==
    /\ drudeTemperature # T
    /\ drudeTemperature' = T
    /\ Observe("setDrudeTemperature", 0, 0, "OK")
    /\ UNCHANGED <<system, cfgVars, tableVars, kernelVars, bindVars, simVars,
                   temperature, chain, numCalls>>

(***************************************************************************)
(* Specifications.                                                         *)
(***************************************************************************)
NoChain == [created |-> FALSE]

\* VVIntegrator::VVIntegrator (lines 46-67); the base class starts unbound
InitIntegrator ==
    /\ context = NULL
    /\ owner = NULL
    /\ forcesAreValid = FALSE
    /\ cosAcceleration = 0
    /\ useCOMTempGroup \in BOOLEAN
    /\ stepSize \in StepSizes
    /\ particlesLD = <<>>
    /\ particlesImage = <<>>
    /\ imagePairs = <<>>
    /\ particlesElectrolyte = <<>>
    /\ particleResId = <<>>
    /\ residueMasses = <<>>
    /\ residueInvMasses = <<>>
    /\ particlesNH = <<>>
    /\ residuesNH = <<>>
    /\ vvKernel = NoKernel
    /\ nhKernel = NoKernel
    /\ ldKernel = NoKernel
    /\ imgKernel = NoKernel
    /\ efKernel = NoKernel
    /\ ppKernel = NoKernel
    /\ simTime = 0
    /\ mirrored = {}
    /\ stepCount = 0
    /\ lastOp = "construct"
    /\ lastArg = 0
    /\ lastReturn = 0
    /\ lastResult = "OK"
    /\ trace = <<>>
    /\ forceUsed = <<>>
    /\ numInit = 0

Init ==
    /\ InitIntegrator
    /\ useCOMTempGroup = FALSE
    /\ \E s \in PlainSystems : system = [c \in Contexts |-> s]
    /\ numNHChains = 1
    /\ loopsPerStep = 1
    /\ temperature = 1
    /\ drudeTemperature = 1
    /\ chain = NoChain
    /\ numCalls = 0

Configure ==
    \/ \E pr \in OrderedPairs :
          Len(imagePairs) < MaxImagePairs /\ AddImagePair(pr[1], pr[2])
    \/ \E p \in Particles : AddParticleLangevin(p)
    \/ \E p \in {0} : AddParticleElectrolyte(p)
    \/ \E a \in {0, 1} : SetCosAcceleration(a)

Next ==
    \/ Configure
    \/ \E ctx \in Contexts : numInit + TableWrites(ctx) <= MaxBinds /\ Initialize(ctx)
    \/ \E steps \in -1 .. MaxSteps : Step(steps)
    \/ ComputeKineticEnergy

Spec == Init /\ [][Next]_vars

\* a parent and its images: unit masses, every particle its own molecule, one
\* DrudeForce without pairs, no constraint, no CMMotionRemover
ImageSystem ==
    [mass |-> [p \in 0 .. (NumSites - 1) |-> 1],
     molecules |-> [i \in 1 .. NumSites |-> <<i - 1>>],
     numDrudeForces |-> 1, drudePairs |-> <<>>, constraints |-> <<>>, numCMM |-> 0]

\* (image, parent): the images of particle 0
ImageChoices == {<<p, 0>> : p \in 1 .. (NumSites - 1)}

InitImage ==
    /\ InitIntegrator
    /\ useCOMTempGroup = FALSE
    /\ stepSize = 1
    /\ system = [c \in Contexts |-> ImageSystem]
    /\ numNHChains = 1
    /\ loopsPerStep = 1
    /\ temperature = 1
    /\ drudeTemperature = 1
    /\ chain = NoChain
    /\ numCalls = 0

\* image pairs registered before and after a bind, and steps
NextImage ==
    \/ \E pr \in ImageChoices :
          Len(imagePairs) < MaxRegistrations /\ AddImagePair(pr[1], pr[2])
    \/ \E ctx \in Contexts : numInit + TableWrites(ctx) <= MaxBinds /\ Initialize(ctx)
    \/ \E steps \in 0 .. MaxSteps : Step(steps)

SpecImage == InitImage /\ [][NextImage]_vars

\* the two contexts are built over systems that differ at most in the mass of
\* particle 0
InitBind ==
    /\ InitIntegrator
    /\ stepSize = 1
    /\ \E s \in Systems, m \in 0 .. MaxMass :
          system = [c \in Contexts |-> IF c = "A" THEN s ELSE [s EXCEPT !.mass[0] = m]]
    /\ numNHChains = 1
    /\ loopsPerStep = 1
    /\ temperature = 1
    /\ drudeTemperature = 1
    /\ chain = NoChain
    /\ numCalls = 0

NextBind ==
    \/ \E pr \in OrderedPairs :
          Len(imagePairs) < MaxImagePairs /\ AddImagePair(pr[1], pr[2])
    \/ \E p \in Particles : AddParticleLangevin(p)
    \/ \E ctx \in Contexts : Initialize(ctx)
    \/ \E ctx \in Contexts : Reinitialize(ctx)

SpecBind == InitBind /\ [][NextBind]_vars

\* unit masses but for particle 0 of context B, one DrudeForce without pairs,
\* no constraint, no CMMotionRemover; the particles in one or in two molecules
InitRebind ==
    /\ InitIntegrator
    /\ useCOMTempGroup = FALSE
    /\ stepSize = 1
    /\ \E s \in Systems, m \in 0 .. MaxMass :
          /\ \A p \in ParticleIds : s.mass[p] = 1
          /\ s.numDrudeForces = 1
          /\ s.drudePairs = <<>>
          /\ s.constraints = <<>>
          /\ s.numCMM = 0
          /\ system = [c \in Contexts |-> IF c = "A" THEN s ELSE [s EXCEPT !.mass[0] = m]]
    /\ numNHChains = 1
    /\ loopsPerStep = 1
    /\ temperature = 1
    /\ drudeTemperature = 1
    /\ chain = NoChain
    /\ numCalls = 0

\* binds that fail late, binds that succeed, rebinds, and steps between them
NextRebind ==
    \/ \E p \in {0} : AddParticleLangevin(p)
    \/ \E a \in {0, 1} : SetCosAcceleration(a)
    \/ \E ctx \in Contexts : Initialize(ctx)
    \/ \E ctx \in Contexts : Reinitialize(ctx)
    \/ \E steps \in 0 .. MaxSteps : Step(steps)
    \/ ComputeKineticEnergy

SpecRebind == InitRebind /\ [][NextRebind]_vars

\* a group without and with degrees of freedom
GroupDofs == {0, 3}
Temperatures == 1 .. MaxTemperature

\* one temperature group's chain as CudaModifyDrudeNoseKernel::initialize leaves it
InitChain ==
    /\ InitIntegrator
    /\ useCOMTempGroup = FALSE
    /\ stepSize = 1
    /\ \E s \in PlainSystems : system = [c \in Contexts |-> s]
    /\ numNHChains \in 1 .. MaxChains
    /\ loopsPerStep \in 1 .. MaxLoops
    /\ numNHChains + loopsPerStep <= MaxChainWork
    /\ temperature \in {0, 1}
    /\ drudeTemperature = 1
    /\ \E dof \in GroupDofs : chain = GroupChain(numNHChains, TG_ATOM, dof)
    /\ numCalls = 0

NextChain == PropagateNHChain

SpecChain == InitChain /\ [][NextChain]_vars

\* the chain of any of the three groups, and target temperatures changed
\* between the calls
InitTemp ==
    /\ InitIntegrator
    /\ useCOMTempGroup = FALSE
    /\ stepSize = 1
    /\ \E s \in PlainSystems : system = [c \in Contexts |-> s]
    /\ numNHChains = 1
    /\ loopsPerStep = 1
    /\ temperature \in Temperatures
    /\ drudeTemperature \in Temperatures
    /\ \E g \in {TG_ATOM, TG_COM, TG_DRUDE}, dof \in GroupDofs :
          chain = GroupChain(numNHChains, g, dof)
    /\ numCalls = 0

NextTemp ==
    \/ \E T \in Temperatures : SetTemperature(T)
    \/ \E T \in Temperatures : SetDrudeTemperature(T)
    \/ PropagateNHChain

SpecTemp == InitTemp /\ [][NextTemp]_vars
(***************************************************************************)
(* Properties.                                                             *)
(***************************************************************************)
integratorVars == <<cfgVars, tableVars, kernelVars, bindVars, simVars>>

CountCalls(calls, name) == Cardinality({i \in DOMAIN calls : calls[i] = name})

\* C1: step(n) on an integrator that was never successfully bound fails with
\* UnboundUsage for every n, 0 and negative n included, makes no collaborator
\* call and leaves forcesAreValid and every other field of the integrator as
\* they were.
C1_UnboundStepFails ==
    [][(context = NULL /\ lastOp' = "step")
          => /\ lastResult' = "UnboundUsage"
             /\ trace' = <<>>
             /\ UNCHANGED integratorVars]_vars

\* step(0) was called after a bind that failed once the tables were written
C1_Witness ==
    /\ context = NULL
    /\ numInit = 1
    /\ lastOp = "step"
    /\ lastArg = 0
    /\ lastResult = "UnboundUsage"

\* C2: once the integrator is bound to a context, initialize for any other
\* context fails with BindingConflict and changes nothing: the integrator is
\* still bound to the same context, and its tables, kernels and
\* configuration are untouched.
C2_RebindFails ==
    [][\A ctx \in Contexts :
          (owner # NULL /\ ctx # owner /\ Initialize(ctx))
             => /\ lastResult' = "BindingConflict"
                /\ context' = context /\ context' # NULL
                /\ UNCHANGED integratorVars]_vars

\* a bind to B was refused while A holds kernels and tables
C2_Witness ==
    /\ owner = "A"
    /\ context = "A"
    /\ vvKernel.created
    /\ particlesNH # <<>>
    /\ lastOp = "initialize"
    /\ lastResult = "BindingConflict"

\* C3: on a bound integrator step(n) runs max(n, 0) iterations, each adding 1
\* to the step counter and stepSize to the time; step(0) makes no
\* collaborator call and changes nothing.
C3_StepAdvancesClock ==
    [][(context # NULL /\ lastOp' = "step")
          => /\ stepCount' = stepCount + Max2(lastArg', 0)
             /\ simTime' = simTime + Max2(lastArg', 0) * stepSize
             /\ CountCalls(trace', "secondIntegrate") = Max2(lastArg', 0)
             /\ lastArg' = 0 => (trace' = <<>> /\ UNCHANGED integratorVars)]_vars

\* C4: computeKineticEnergy leaves forcesAreValid false, and a step that
\* starts with the flag false evaluates the forces right after
\* updateContextState, before any thermostat or integration call; an
\* iteration that then runs to its end has evaluated them twice.
C4_QueryInvalidatesForces ==
    [][/\ lastOp' = "computeKineticEnergy" => ~forcesAreValid'
       /\ (context # NULL /\ ~forcesAreValid /\ lastOp' = "step" /\ lastArg' >= 1)
             => /\ Len(trace') >= 2
                /\ trace'[1] = "updateContextState"
                /\ trace'[2] = "calcForcesAndEnergy"
                /\ (lastArg' = 1 /\ lastResult' = "OK")
                      => CountCalls(trace', "calcForcesAndEnergy") = 2]_vars

\* the kinetic energy was queried after two steps had left the forces valid
C4_Witness ==
    /\ context # NULL
    /\ stepCount = MaxStepCount
    /\ lastOp = "computeKineticEnergy"
    /\ lastResult = "OK"
    /\ ~forcesAreValid

\* C5: for a chain whose etaMass[0] is 0 every call of propagateNHChain
\* returns the scale factor 1.0.
C5_ZeroMassUnitFactor ==
    (At(chain.etaMass, 0) = "Zero" /\ numCalls >= 1) => chain.factor = "One"

\* C6: with etaMass[0] = 0 a call of propagateNHChain evaluates no division
\* by etaMass[0] and leaves eta, etaDot and etaDotDot as they were.
C6_ZeroMassChainInert ==
    [][(At(chain.etaMass, 0) = "Zero" /\ numCalls' = numCalls + 1)
          => /\ ~chain'.dividedByZeroMass
             /\ chain'.eta = chain.eta
             /\ chain'.etaDot = chain.etaDot
             /\ chain'.etaDotDot = chain.etaDotDot]_vars

\* the DOF the kernel of the bound context computed before clamping
\* (the tables are those of the bind that created the kernel)
BoundRawDof ==
    RawDof(system[context], particlesNH, residuesNH, particleResId,
           residueInvMasses, useCOMTempGroup)

\* C7: whenever the Nose-Hoover kernel exists, the DOF of each of the three
\* temperature groups is >= 0.
C7_DofNonNegative ==
    nhKernel.created => \A g \in 1 .. NUM_TG : nhKernel.tempGroupDof[g] >= 0

\* a bind whose Atom count was negative before the clamp
C7_Witness ==
    /\ context # NULL
    /\ nhKernel.created
    /\ lastOp = "initialize"
    /\ lastResult = "OK"
    /\ ~BoundRawDof[TG_ATOM + 1].ninf
    /\ BoundRawDof[TG_ATOM + 1].v < 0
    /\ nhKernel.tempGroupDof[TG_ATOM + 1] = 0

\* the three DOF plus what was removed, and 3 per massive NH particle, in
\* units of 1/DofScale
DofSum ==
    nhKernel.tempGroupDof[TG_ATOM + 1] + nhKernel.tempGroupDof[TG_COM + 1]
    + nhKernel.tempGroupDof[TG_DRUDE + 1]

RemovedDof ==
    DofScale * (Len(ConstraintsNH(system[context], particlesNH))
                + (IF system[context].numCMM > 0 THEN 3 ELSE 0))

MassiveNH == {p \in Particles : IsIn(particlesNH, p) /\ system[context].mass[p] # 0}

NoGroupClamped == \A g \in 1 .. NUM_TG : ~BoundRawDof[g].ninf /\ BoundRawDof[g].v >= 0

\* the stored inverse mass of residue r times the mass of its NH particles is 1
InverseMassMatches(r) ==
    LET inv == getResInvMass(residueInvMasses, r)
        m == SumOver({p \in Particles : /\ IsIn(particlesNH, p)
                                        /\ getParticleResId(particleResId, p) = r},
                     system[context].mass)
    IN inv.den # 0 /\ inv.num * m = inv.den

JustBound == context # NULL /\ nhKernel.created /\ lastOp = "initialize" /\ lastResult = "OK"

\* C8 as stated: after every successful bind the three DOF plus the removed
\* contributions (1 per constraint subtracted, 3 for a COM-motion remover)
\* equal 3 times the number of massive NH particles.
C8_DofSumAlways ==
    JustBound => DofSum + RemovedDof = 3 * DofScale * Cardinality(MassiveNH)

\* C8 as amended: the equality holds after a successful bind in which no
\* group was clamped and, with COM grouping, the stored inverse mass of every
\* NH residue times the mass of its NH particles is 1.
C8_DofSumUnclamped ==
    (/\ JustBound
     /\ NoGroupClamped
     /\ useCOMTempGroup => \A r \in Range(residuesNH) : InverseMassMatches(r))
        => DofSum + RemovedDof = 3 * DofScale * Cardinality(MassiveNH)

\* a bind with COM grouping, a constraint and a COM-motion remover counted
C8_Witness ==
    /\ JustBound
    /\ NoGroupClamped
    /\ useCOMTempGroup
    /\ \A r \in Range(residuesNH) : InverseMassMatches(r)
    /\ Len(ConstraintsNH(system[context], particlesNH)) = 1
    /\ system[context].numCMM = 2
    /\ Cardinality(MassiveNH) = 2

\* some residue of the context's system holds a Langevin particle and a
\* particle that is neither Langevin nor image
MixedResidue(ctx) ==
    LET resId == ParticleResIdOf(system[ctx].molecules)
    IN \E i \in Particles, j \in Particles :
          /\ getParticleResId(resId, i) = getParticleResId(resId, j)
          /\ isParticleLD(i)
          /\ IsClassifiedNH(j)

BindAttempt(ctx) == Initialize(ctx) \/ Reinitialize(ctx)

\* no residue of the NH residue list holds a Langevin particle
NoSharedResidue ==
    \A i \in Particles :
       isParticleLD(i) => ~Contains(residuesNH, getParticleResId(particleResId, i))

\* C9 as stated: a bind made while some residue holds both a Langevin and an
\* NH particle fails with ConfigurationConflict and leaves the integrator
\* Unbound; after a successful bind no residue is in both the NH residue
\* list and the Langevin set.
C9_MixedResidueUnbound ==
    [][/\ \A ctx \in Contexts :
             (MixedResidue(ctx) /\ BindAttempt(ctx))
                => (lastResult' = "ConfigurationConflict" /\ context' = NULL)
       /\ (lastOp' = "initialize" /\ lastResult' = "OK") => NoSharedResidue']_vars

\* C9 as amended: a bind that passes the checks made before classification
\* (binding, Drude force discovery, COM grouping) while some residue holds
\* both a Langevin and an NH particle fails with ConfigurationConflict and
\* leaves the binding as it was; after a successful bind no residue is in
\* both the NH residue list and the Langevin set.
C9_MixedResidueFails ==
    [][/\ \A ctx \in Contexts :
             (/\ MixedResidue(ctx)
              /\ EarlyFailure(ctx, system[ctx]) = "OK"
              /\ BindAttempt(ctx))
                => (lastResult' = "ConfigurationConflict" /\ UNCHANGED bindVars)
       /\ (lastOp' = "initialize" /\ lastResult' = "OK") => NoSharedResidue']_vars

\* the first bind was refused for a residue of one Langevin and one NH particle
C9_Witness ==
    /\ context = NULL
    /\ numInit = 1
    /\ lastOp = "initialize"
    /\ lastResult = "ConfigurationConflict"
    /\ MixedResidue("A")
    /\ Len(particlesLD) = 1
    /\ particlesNH # <<>>

\* C10: in no state of a bound integrator are the Langevin set non-empty and
\* cosAcceleration nonzero together, and no step applies both the Langevin
\* force and the cosine force.
C10_LangevinExcludesCosine ==
    /\ context # NULL => ~(particlesLD # <<>> /\ cosAcceleration # 0)
    /\ ~(Contains(trace, "applyLangevinForce") /\ Contains(trace, "applyCosForce"))

\* C11: on an unbound integrator a bind for a system with more than one
\* Drude force fails with MultipleForceDefinition, and a bind for a system
\* with no Drude force while useCOMTempGroup is set fails with
\* ConfigurationConflict; both leave every field of the integrator as it
\* was (unbound, tables untouched, no kernel created), so that a following
\* step fails with UnboundUsage.
C11_DrudeDiscoveryFirst ==
    [][\A ctx \in Contexts :
          (context = NULL /\ BindAttempt(ctx))
             => /\ system[ctx].numDrudeForces > 1
                   => (/\ lastResult' = "MultipleForceDefinition"
                       /\ UNCHANGED integratorVars
                       /\ StepGuard' = "UnboundUsage")
                /\ (system[ctx].numDrudeForces = 0 /\ useCOMTempGroup)
                   => (/\ lastResult' = "ConfigurationConflict"
                       /\ UNCHANGED integratorVars
                       /\ StepGuard' = "UnboundUsage")]_vars

\* a bind with COM grouping and no Drude force was refused; nothing was written
C11_Witness ==
    /\ context = NULL
    /\ system["A"].numDrudeForces = 0
    /\ useCOMTempGroup
    /\ particlesLD # <<>>
    /\ lastOp = "initialize"
    /\ lastResult = "ConfigurationConflict"
    /\ particleResId = <<>>
    /\ particlesNH = <<>>
    /\ ~vvKernel.created

\* the particles of the NH list, and the bind of a system without Drude
\* pairs and constraints, without COM grouping, all NH particles massive
ListedNH == {p \in Particles : IsIn(particlesNH, p)}

PlainBind ==
    /\ JustBound
    /\ system[context].drudePairs = <<>>
    /\ system[context].constraints = <<>>
    /\ ~useCOMTempGroup
    /\ \A p \in ListedNH : system[context].mass[p] # 0

PlainDof(n) == <<3 * n * DofScale, 0, 0>>

\* C12 as stated: with zero Drude pairs, zero constraints, COM grouping
\* disabled and N NH particles, all massive, the Atom DOF computed at bind
\* is 3N and the CenterOfMass and Drude DOF are 0.
C12_PlainAtomDof ==
    PlainBind => nhKernel.tempGroupDof = PlainDof(Cardinality(ListedNH))

\* C12 as amended: the same for a system that holds no COM-motion remover.
C12_PlainAtomDofNoRemover ==
    (PlainBind /\ system[context].numCMM = 0)
        => nhKernel.tempGroupDof = PlainDof(Cardinality(ListedNH))

\* such a bind with one NH particle beside a Langevin particle
C12_Witness ==
    /\ PlainBind
    /\ system[context].numCMM = 0
    /\ Cardinality(ListedNH) = 1
    /\ particlesLD # <<>>
    /\ nhKernel.tempGroupDof[TG_ATOM + 1] = 3 * DofScale

\* a call of propagateNHChain entered with every etaDot entry zero
CallFromRest ==
    /\ numCalls' = numCalls + 1
    /\ \A i \in DOMAIN chain.etaDot : chain.etaDot[i] = "Zero"

\* C13: a call of propagateNHChain with ke2 = ke2_target, entered with every
\* etaDot entry zero, returns the scale factor 1.0 and leaves etaDot[0] zero,
\* for every numNHChains and loopsPerStep.
C13_FixedPoint ==
    [][(CallFromRest /\ chain'.cmp = "EQ")
          => (chain'.factor = "One" /\ At(chain'.etaDot, 0) = "Zero")]_vars

\* C14: with etaMass[0] > 0 and loopsPerStep = 1, a call of propagateNHChain
\* entered with every etaDot entry zero and ke2 > ke2_target returns a scale
\* factor strictly below 1.0.
C14_Damping ==
    [][(/\ CallFromRest
        /\ At(chain.etaMass, 0) = "Pos"
        /\ loopsPerStep = 1
        /\ chain'.cmp = "GT")
          => chain'.factor = "LT1"]_vars

\* the first call on a chain of two links, made with ke2 above its target
C14_Witness ==
    /\ numCalls = 1
    /\ numNHChains = 2
    /\ loopsPerStep = 1
    /\ At(chain.etaMass, 0) = "Pos"
    /\ chain.ke2 = "Pos"
    /\ chain.tempGroupNkbT = "Pos"
    /\ chain.cmp = "GT"
    /\ chain.factor = "LT1"

\* a call of step whose iterations all ran to their end
StepCompleted == lastOp = "step" /\ lastArg >= 1 /\ lastResult = "OK"

\* C15: at the end of a step iteration the image of every registered image pair
\* sits at the mirror of its parent.
C15_ImagesMirrored == StepCompleted => mirrored = 1 .. Len(imagePairs)

\* the state a successful bind leaves
BindSucceeded == context # NULL /\ lastOp = "initialize" /\ lastResult = "OK"

ResidueIds == 0 .. (Len(system[context].molecules) - 1)

\* the sum of the masses of the particles whose residue id is r
MemberMass(r) ==
    SumOver({p \in Particles : getParticleResId(particleResId, p) = r},
            system[context].mass)

ResidueMassIsSum(r) == At(residueMasses, r) = MemberMass(r)

ResidueInvMassIsInverse(r) ==
    LET inv == getResInvMass(residueInvMasses, r)
    IN MemberMass(r) # 0 => (inv.den # 0 /\ inv.num * MemberMass(r) = inv.den)

\* C16: after a successful bind the stored mass of every residue is the sum of
\* the masses of its particles, and getResInvMass returns the inverse of that
\* mass when it is not zero.
C16_ResidueMasses ==
    BindSucceeded => \A r \in ResidueIds : ResidueMassIsSum(r) /\ ResidueInvMassIsInverse(r)

\* C17: a call of addImagePair returns the size of the pair list after the
\* append, one more than before; the pairs registered earlier keep their index
\* and their values; no other operation changes the list; the list of image
\* particles has the length of the pair list.
C17_AppendOnly ==
    [][/\ Len(particlesImage') = Len(imagePairs')
       /\ IF lastOp' = "addImagePair"
          THEN /\ Len(imagePairs') = Len(imagePairs) + 1
               /\ lastReturn' = Len(imagePairs')
               /\ SubSeq(imagePairs', 1, Len(imagePairs)) = imagePairs
               /\ particlesImage'[Len(imagePairs')] = imagePairs'[Len(imagePairs')][1]
          ELSE imagePairs' = imagePairs]_vars

\* the third registration, made after a bind and a step, returned 3
C17_Witness ==
    /\ lastOp = "addImagePair"
    /\ lastReturn = 3
    /\ Len(imagePairs) = 3
    /\ Len(particlesImage) = 3
    /\ context # NULL
    /\ stepCount > 0

\* the calls that mark the stages of an iteration
StageCalls ==
    {"updateContextState", "calcForcesAndEnergy", "scaleVelocity", "firstIntegrate",
     "updateImagePositions", "resetExtraForce", "applyLangevinForce",
     "applyElectricForce", "applyCosForce", "secondIntegrate"}

StageTrace == SelectSeq(trace, LAMBDA c : c \in StageCalls)

Stage(present, name) == IF present THEN <<name>> ELSE <<>>

\* the stages of one iteration after its forces became valid, for the
\* configuration the integrator holds now
StagesInOrder ==
    Stage(particlesNH # <<>>, "scaleVelocity")
    \o <<"firstIntegrate">>
    \o Stage(particlesImage # <<>>, "updateImagePositions")
    \o <<"calcForcesAndEnergy">>
    \o Stage(particlesLD # <<>> \/ particlesElectrolyte # <<>> \/ cosAcceleration # 0,
             "resetExtraForce")
    \o Stage(particlesLD # <<>>, "applyLangevinForce")
    \o Stage(particlesElectrolyte # <<>>, "applyElectricForce")
    \o Stage(cosAcceleration # 0, "applyCosForce")
    \o <<"secondIntegrate">>
    \o Stage(particlesNH # <<>>, "scaleVelocity")

IterationOpenings ==
    {<<"updateContextState">>, <<"updateContextState", "calcForcesAndEnergy">>}

StartsWith(tr, pre) == Len(tr) >= Len(pre) /\ SubSeq(tr, 1, Len(pre)) = pre

RECURSIVE RunsIterations(_, _)
RunsIterations(tr, n) ==
    IF n = 0 THEN tr = <<>>
    ELSE \E open \in IterationOpenings :
            LET it == open \o StagesInOrder
            IN /\ StartsWith(tr, it)
               /\ RunsIterations(SubSeq(tr, Len(it) + 1, Len(tr)), n - 1)

\* C18: every iteration of a step on a bound integrator runs the stages in the
\* fixed order, each stage present exactly when its set is not empty (its
\* acceleration not zero); the thermostat runs twice in an iteration when NH
\* particles exist and never otherwise.
C18_StageOrder ==
    (context # NULL /\ lastOp = "step" /\ lastArg >= 1)
       => RunsIterations(StageTrace, lastArg)

(***************************************************************************)
(* The reference propagator: the five numbered steps of a sub-iteration,   *)
(* on links 0 .. n-1 with the terminator slot n, in the arithmetic of the  *)
(* classes above. A reference state is [eta, v, a, e, scale]: positions,   *)
(* velocities (etaDot), accelerations (etaDotDot), the last expfac and the *)
(* running scale factor.                                                   *)
(***************************************************************************)
\* (v * expfac + a * dt4) * expfac
RefKick(v, a, e) == {TimesFactor(s, e) : s \in AddD(TimesFactor(v, e), a)}

\* step 1, link ich
RefInwardLink(r, ich) ==
    LET e == ExpNeg(r.v[ich + 1])
    IN {[r EXCEPT !.e = e, !.v[ich] = w] : w \in RefKick(r.v[ich], r.a[ich], e)}

RECURSIVE RefInward(_, _)
RefInward(R, ich) ==
    IF ich < 0 THEN R ELSE RefInward(UNION {RefInwardLink(r, ich) : r \in R}, ich - 1)

\* step 2
RefScale(r) == {[r EXCEPT !.scale = f] : f \in MulFactor(r.scale, ExpNeg(r.v[0]))}

\* step 3, link ich
RefAdvanceLink(r, ich) == {[r EXCEPT !.eta[ich] = x] : x \in AddD(r.eta[ich], r.v[ich])}

RECURSIVE RefAdvance(_, _, _)
RefAdvance(R, ich, n) ==
    IF ich >= n THEN R
    ELSE RefAdvance(UNION {RefAdvanceLink(r, ich) : r \in R}, ich + 1, n)

\* step 4
RefFirstLink(r, mass0, ke2, target, cmp) ==
    UNION {LET acc == DivMass(x, mass0)
           IN {[r EXCEPT !.a[0] = acc, !.v[0] = w] : w \in RefKick(r.v[0], acc, r.e)} :
           x \in ScaledExcess(ke2, target, cmp, r.scale)}

\* step 5, link ich
RefOutwardLink(r, mass, kbT, ich) ==
    LET e == ExpNeg(r.v[ich + 1])
    IN UNION {LET acc == DivMass(x, mass[ich])
              IN {[r EXCEPT !.e = e, !.a[ich] = acc, !.v[ich] = w] :
                     w \in RefKick(r.v[ich], acc, e)} :
              x \in AddD(TimesMass(mass[ich - 1], Square(r.v[ich - 1])), Negate(kbT))}

RECURSIVE RefOutward(_, _, _, _, _)
RefOutward(R, mass, kbT, ich, n) ==
    IF ich >= n THEN R
    ELSE RefOutward(UNION {RefOutwardLink(r, mass, kbT, ich) : r \in R},
                    mass, kbT, ich + 1, n)

RECURSIVE RefLoop(_, _, _, _, _, _, _, _)
RefLoop(R, mass, kbT, ke2, target, cmp, n, loops) ==
    IF loops = 0 THEN R
    ELSE LET s1 == RefInward(R, n - 1)
             s2 == UNION {RefScale(r) : r \in s1}
             s3 == RefAdvance(s2, 0, n)
             s4 == UNION {RefFirstLink(r, mass[0], ke2, target, cmp) : r \in s3}
             s5 == RefOutward(s4, mass, kbT, 1, n)
         IN RefLoop(s5, mass, kbT, ke2, target, cmp, n, loops - 1)

\* the reference results of a call on chain c, as chains
RefResults(c, ke2, cmp, n, loops) ==
    LET mass == [ich \in 0 .. n - 1 |-> c.etaMass[ich + 1]]
        r0 == [eta |-> [ich \in 0 .. n - 1 |-> c.eta[ich + 1]],
               v |-> [ich \in 0 .. n |-> c.etaDot[ich + 1]],
               a |-> [ich \in 0 .. n - 1 |->
                        IF ich = 0 THEN DivMass(Excess(cmp), mass[0])
                        ELSE c.etaDotDot[ich + 1]],
               e |-> "One", scale |-> "One"]
    IN {[eta |-> [k \in 1 .. n |-> r.eta[k - 1]],
         etaDot |-> [k \in 1 .. n + 1 |-> r.v[k - 1]],
         etaDotDot |-> [k \in 1 .. n |-> r.a[k - 1]],
         factor |-> r.scale] :
           r \in RefLoop({r0}, mass, c.kbT, ke2, c.tempGroupNkbT, cmp, n, loops)}

\* the results of propagateNHChain on chain c, as chains
CodeResults(c, ke2, cmp, n, loops) ==
    {[eta |-> st.eta, etaDot |-> st.etaDot, etaDotDot |-> st.etaDotDot,
      factor |-> st.factor] :
        st \in propagateNHChain(c, [ke2 |-> ke2, cmp |-> cmp], n, loops)}

\* C19: for etaMass[0] > 0 a call of propagateNHChain has the results of the
\* reference propagator, scale factor and chain state, and the terminator slot
\* etaDot[numNHChains] is zero before and after the call.
C19_RefinesReference ==
    [][(numCalls' = numCalls + 1 /\ At(chain.etaMass, 0) = "Pos")
          => /\ CodeResults(chain, chain'.ke2, chain'.cmp, numNHChains, loopsPerStep)
                = RefResults(chain, chain'.ke2, chain'.cmp, numNHChains, loopsPerStep)
             /\ At(chain.etaDot, numNHChains) = "Zero"
             /\ At(chain'.etaDot, numNHChains) = "Zero"]_vars

\* a second call on a chain of two links whose velocities are no longer zero
C19_Witness ==
    /\ numCalls = 2
    /\ numNHChains = 2
    /\ At(chain.etaMass, 0) = "Pos"
    /\ At(chain.etaDot, 0) = "Pos"
    /\ At(chain.etaDot, 1) = "Neg"
    /\ At(chain.etaDot, 2) = "Zero"
    /\ chain.factor = "LT1"

\* the calls of n iterations that follow the forces-valid protocol: each opens
\* with the query, evaluates the forces next exactly when the flag is false
\* after the query, runs the stages with their one evaluation, and ends with
\* the flag true
RECURSIVE ProtocolTrace(_, _, _, _)
ProtocolTrace(i, n, valid, resps) ==
    IF i > n THEN <<>>
    ELSE <<"updateContextState">>
         \o Stage(~valid \/ resps[i].changed, "calcForcesAndEnergy")
         \o StagesInOrder
         \o ProtocolTrace(i + 1, n, TRUE, resps)

\* this step is a call of step(n) that got the responses resps
StepTook(n, resps, stray) ==
    LET r == StepOutcome(n, resps, stray)
    IN /\ lastOp' = "step"
       /\ lastArg' = n
       /\ trace' = r.calls
       /\ forcesAreValid' = r.valid
       /\ lastResult' = r.result
       /\ mirrored' = r.mirrored

\* this step is the first call of step after a successful bind
FirstStepAfterBind ==
    lastOp = "initialize" /\ lastResult = "OK" /\ lastOp' = "step" /\ lastArg' >= 1

\* C20: every iteration of a step on a bound integrator queries the context
\* first and once, evaluates the forces before the first thermostat stage
\* exactly when the flag is false after the query, evaluates them once more
\* between the image mirror and the modifiers, and ends with the flag true; the
\* first step after a bind starts with the flag false.
C20_ForcesProtocol ==
    [][/\ FirstStepAfterBind => ~forcesAreValid
       /\ \A n \in 1 .. MaxSteps, stray \in StrayReads :
            \A resps \in [1 .. n -> Responses] :
               (context # NULL /\ StepTook(n, resps, stray))
                  => /\ StageTrace' = ProtocolTrace(1, n, forcesAreValid, resps)
                     /\ forcesAreValid']_vars

\* the calls of a thermostat stage and of the two half-step integrations
BiasTrace ==
    SelectSeq(trace, LAMBDA c : c \in {"calcVelocityBias", "removeVelocityBias",
                                       "calcGroupKineticEnergies", "scaleVelocity",
                                       "restoreVelocityBias", "firstIntegrate",
                                       "secondIntegrate"})

\* a thermostat stage under a cosine acceleration
BiasedStage ==
    <<"calcVelocityBias", "removeVelocityBias", "calcGroupKineticEnergies",
      "scaleVelocity", "restoreVelocityBias">>

\* whole thermostat stages between integrations: the bias is removed only
\* inside a stage and restored at its end
RECURSIVE WellStaged(_)
WellStaged(tr) ==
    IF tr = <<>> THEN TRUE
    ELSE IF Head(tr) \in {"firstIntegrate", "secondIntegrate"} THEN WellStaged(Tail(tr))
    ELSE /\ StartsWith(tr, BiasedStage)
         /\ WellStaged(SubSeq(tr, Len(BiasedStage) + 1, Len(tr)))

NoBiasCall ==
    \A k \in 1 .. Len(trace) :
        trace[k] \notin {"calcVelocityBias", "removeVelocityBias", "restoreVelocityBias"}

\* C21: in a step on a bound integrator with NH particles and a nonzero
\* cosAcceleration every thermostat stage runs calcVelocityBias,
\* removeVelocityBias, the kinetic energies, the scaling and
\* restoreVelocityBias, and no integration falls between a removal and its
\* restoration; with cosAcceleration zero no bias call is made.
C21_BiasBracketsThermostat ==
    (context # NULL /\ lastOp = "step" /\ lastArg >= 1)
       => /\ (particlesNH # <<>> /\ cosAcceleration # 0)
                => (StartsWith(BiasTrace, BiasedStage) /\ WellStaged(BiasTrace))
          /\ cosAcceleration = 0 => NoBiasCall

\* the modifier kernels a step has invoked
InvokedModifiers ==
    {m \in {"nh", "ld", "img", "ef", "pp"} :
        \/ m = "nh" /\ Contains(trace, "scaleVelocity")
        \/ m = "ld" /\ Contains(trace, "applyLangevinForce")
        \/ m = "img" /\ Contains(trace, "updateImagePositions")
        \/ m = "ef" /\ Contains(trace, "applyElectricForce")
        \/ m = "pp" /\ Contains(trace, "applyCosForce")}

\* the modifier kernels the last bind created
CreatedModifiers == {m \in {"nh", "ld", "img", "ef", "pp"} : CurrentKernels[m].created}

\* C22: a step on a bound integrator invokes exactly the modifier kernels the
\* bind created, and never reaches for a modifier whose kernel was not
\* created, whatever configuration calls followed the bind.
C22_ModifiersFixedAtBind ==
    (context # NULL /\ lastOp = "step" /\ lastArg >= 1)
       => (lastResult # "InvalidKernel" /\ InvokedModifiers = CreatedModifiers)

\* C23: in every call of propagateNHChain the ke2_target argument is the DOF
\* of the group times BOLTZ times the t_target argument of that call, and
\* t_target is the Drude temperature for the Drude group and the real
\* temperature for the other groups, also after the temperatures were changed.
C23_TargetMatchesTemperature ==
    [][numCalls' = numCalls + 1
          => /\ chain'.tTarget = (IF chain.group = TG_DRUDE THEN drudeTemperature
                                  ELSE temperature)
             /\ chain'.ke2Target = chain.dof * chain'.tTarget]_vars

\* C24 as stated: the sub-iterations of one call of propagateNHChain advance
\* the chain by dt2 each, stepSize in all.
C24_CallCoversStep ==
    [][numCalls' = numCalls + 1 => chain'.elapsed = stepSize * TimeScale]_vars

\* C24, amended: the sub-iterations of one call of propagateNHChain advance
\* the chain by dt2 = stepSize / loopsPerStep / 2 each, half of stepSize in all.
C24_CallCoversHalfStep ==
    [][numCalls' = numCalls + 1
          => /\ chain'.elapsed = loopsPerStep * Dt2
             /\ 2 * chain'.elapsed = stepSize * TimeScale]_vars

\* a call with two sub-iterations covered half a step
C24_Witness ==
    /\ numCalls = 1
    /\ loopsPerStep = 2
    /\ chain.elapsed > 0
    /\ 2 * chain.elapsed = stepSize * TimeScale

\* the tables a single bind to the bound context writes into an integrator
\* whose tables are empty
SingleBindTables ==
    LET sys == system[context]
        resId == ParticleResIdOf(sys.molecules)
        masses == ResidueMassesOf(sys, resId)
        cls == ClassifyNH(0, [p |-> <<>>, r |-> <<>>], resId)
    IN [particleResId |-> resId, residueMasses |-> masses,
        residueInvMasses |-> ResidueInvMassesOf(<<>>, masses),
        particlesNH |-> cls.p, residuesNH |-> cls.r]

\* C25: the tables a successful bind leaves are those of a single bind with
\* the same inputs, whatever binds came before: same lengths, same values, no
\* entry twice.
C25_TablesOfSingleBind ==
    BindSucceeded =>
        [particleResId |-> particleResId, residueMasses |-> residueMasses,
         residueInvMasses |-> residueInvMasses,
         particlesNH |-> particlesNH, residuesNH |-> residuesNH] = SingleBindTables

\* the constraints of the bound system with an endpoint in the NH list
TouchingNH ==
    {i \in 1 .. Len(system[context].constraints) :
        \/ IsIn(particlesNH, system[context].constraints[i][1])
        \/ IsIn(particlesNH, system[context].constraints[i][2])}

\* the Atom count of the bound system before the clamp, had it no constraint
UnconstrainedAtomDof ==
    RawDof([system[context] EXCEPT !.constraints = <<>>], particlesNH, residuesNH,
           particleResId, residueInvMasses, useCOMTempGroup)[TG_ATOM + 1]

AtomUnclamped == ~BoundRawDof[TG_ATOM + 1].ninf /\ BoundRawDof[TG_ATOM + 1].v >= 0

\* C26: after a successful bind whose Atom count was not clamped, the Atom DOF
\* is lower by exactly 1 for every constraint with its first or its second
\* endpoint in the NH list, and by nothing for the other constraints.
C26_ConstraintsTouchingNH ==
    (JustBound /\ AtomUnclamped)
        => nhKernel.tempGroupDof[TG_ATOM + 1]
             = UnconstrainedAtomDof.v - DofScale * Cardinality(TouchingNH)

\* the residues that hold a particle of the NH list
ThermostattedResidues ==
    {getParticleResId(particleResId, p) : p \in {q \in Particles : IsIn(particlesNH, q)}}

\* 3 if the bound system holds a CMMotionRemover, however many, else 0
RemoverShare == IF system[context].numCMM >= 1 THEN 3 ELSE 0

\* the Atom count of the bound system before the clamp, had it no remover
RemoverFreeAtomDof ==
    RawDof([system[context] EXCEPT !.numCMM = 0], particlesNH, residuesNH,
           particleResId, residueInvMasses, useCOMTempGroup)[TG_ATOM + 1]

\* C27: after a successful bind with COM grouping the CenterOfMass DOF is
\* max(0, 3 R - 3 c), R the number of residues with an NH particle and c = 1
\* when the system holds at least one COM-motion remover, and an unclamped
\* Atom DOF is that of the system without remover; without COM grouping the
\* CenterOfMass DOF is 0 and an unclamped Atom DOF is 3 c lower than that of
\* the system without remover.
C27_CenterOfMassDof ==
    JustBound =>
        IF useCOMTempGroup
        THEN /\ nhKernel.tempGroupDof[TG_COM + 1]
                  = DofScale * Max2(0, 3 * Cardinality(ThermostattedResidues) - RemoverShare)
             /\ AtomUnclamped => nhKernel.tempGroupDof[TG_ATOM + 1] = RemoverFreeAtomDof.v
        ELSE /\ nhKernel.tempGroupDof[TG_COM + 1] = 0
             /\ AtomUnclamped
                   => nhKernel.tempGroupDof[TG_ATOM + 1]
                        = RemoverFreeAtomDof.v - DofScale * RemoverShare

\* a bind with COM grouping, two NH residues and two removers, counted once
C27_Witness ==
    /\ JustBound
    /\ useCOMTempGroup
    /\ Cardinality(ThermostattedResidues) = 2
    /\ system[context].numCMM = 2
    /\ nhKernel.tempGroupDof[TG_COM + 1] = 3 * DofScale

\* the members of the Drude pairs of the bound system
PairMembers == UNION {{pr[1], pr[2]} : pr \in Range(system[context].drudePairs)}

\* C28: after a successful bind no member of a Drude pair is in the normal NH
\* list or in the normal Langevin list of the kernels.
C28_PairMembersNotNormal ==
    BindSucceeded =>
        /\ nhKernel.created => Range(nhKernel.normalParticlesNH) \cap PairMembers = {}
        /\ ldKernel.created => Range(ldKernel.normalParticlesLD) \cap PairMembers = {}

\* a successful bind, the first one to reach the classification of lines
\* 108-136 (binds refused by the tests of lines 90-104 write no table)
FirstBindSucceeded == BindSucceeded /\ numInit = 1

\* C29: after a successful first bind the NH list is the ascending list of the
\* particles that are neither Langevin nor image, every particle is NH,
\* Langevin or image, no NH particle is Langevin or image, and the NH residue
\* list holds the residue ids of the NH particles, each once.
C29_FirstBindPartition ==
    FirstBindSucceeded =>
        /\ particlesNH = SortedSeq({p \in Particles : ~isParticleLD(p) /\ ~isParticleImage(p)})
        /\ \A p \in Particles : IsIn(particlesNH, p) \/ isParticleLD(p) \/ isParticleImage(p)
        /\ Range(particlesNH) \cap (Range(particlesLD) \cup Range(particlesImage)) = {}
        /\ Range(residuesNH) = {getParticleResId(particleResId, p) : p \in Range(particlesNH)}
        /\ Cardinality(Range(residuesNH)) = Len(residuesNH)

\* a first bind with an image particle and an NH particle
C29_Witness ==
    /\ FirstBindSucceeded
    /\ particlesImage = <<0>>
    /\ particlesLD = <<>>
    /\ particlesNH = <<1>>
    /\ Len(residuesNH) = 1

\* the calls that write the extra-force array
ForceWrites == {"resetExtraForce", "applyLangevinForce", "applyElectricForce", "applyCosForce"}

\* call i of the trace comes after the force evaluation that follows the first
\* half-step integration of its iteration and before the second one
AfterForcesBeforeSecondHalf(tr, i) ==
    \E j \in 1 .. (i - 1), k \in 1 .. (i - 1) :
        /\ j < k
        /\ tr[j] = "firstIntegrate"
        /\ tr[k] = "calcForcesAndEnergy"
        /\ \A m \in (j + 1) .. (i - 1) : tr[m] \notin {"firstIntegrate", "secondIntegrate"}

\* no modifier of lines 247-254 is active
NoModifierActive == particlesLD = <<>> /\ particlesElectrolyte = <<>> /\ cosAcceleration = 0

\* C30: every write of the extra-force array lies between the force evaluation
\* and the second half-step integration of an iteration; the first half of an
\* iteration reads the array the second half of the iteration before read, also
\* across an energy query; the first iteration after a bind reads an all-zero
\* array, and so does every iteration made while no modifier is active.
C30_ExtraForceFrame ==
    [][/\ lastOp' = "computeKineticEnergy" => vvKernel' = vvKernel
       /\ lastOp' = "step" =>
            /\ \A i \in 1 .. Len(trace') :
                  trace'[i] \in ForceWrites => AfterForcesBeforeSecondHalf(trace', i)
            /\ \A i \in 1 .. (Len(forceUsed') - 1) :
                  (forceUsed'[i].half = 2 /\ forceUsed'[i + 1].half = 1)
                     => forceUsed'[i + 1].force = forceUsed'[i].force
            /\ (forceUsed' # <<>> /\ vvKernel.created)
                  => forceUsed'[1].force = vvKernel.forceExtra
            /\ (forceUsed' # <<>> /\ FirstStepAfterBind) => forceUsed'[1].force = {}
            /\ NoModifierActive
                  => \A i \in 1 .. Len(forceUsed') : forceUsed'[i].force = {}]_vars

=============================================================================
